---- MODULE Spec2Model ----
(***************************************************************************)
(* Block storage device (src/block_store.c): 256 blocks of 256 bytes, each *)
(* block held in a 2048-bit bitmap_t; bmp[0] is the free block map.        *)
(***************************************************************************)
EXTENDS Integers, FiniteSets, Sequences, TLC

(* ---------------- program constants ---------------- *)
\* bitmap_t *bmp[256]
NUM_BLOCKS == 256
\* bitmap_create(2048)
BLOCK_BITS == 2048
\* memcpy(..., 256), return 256
BLOCK_BYTES == 256
\* block_store_get_total_blocks: return 255
AVAIL_BLOCKS == 255
\* (size_t)-1; stands for the largest size_t value (larger than every id used)
SIZE_MAX == 2147483647

\* tests.cpp: memset(write_buffer, '~', 10)
TildeLen == 10

(* ---------------- bounds of the model ---------------- *)
\* calls made on the device after create
MaxCalls == 4

NULL == "NULL"
NoData == <<>>
\* a NULL entry of bmp[] (no bitmap_t holds bit -1)
NullBitmap == {-1}

BlockIds == 0 .. (NUM_BLOCKS - 1)
ByteIdx == 0 .. (BLOCK_BYTES - 1)

Pow2(j) == CASE j = 0 -> 1 [] j = 1 -> 2 [] j = 2 -> 4 [] j = 3 -> 8
             [] j = 4 -> 16 [] j = 5 -> 32 [] j = 6 -> 64 [] j = 7 -> 128

(* ---------------- the bitmap primitive ---------------- *)
\* A bitmap_t is modelled by the set of its set bit positions.
bitmap_create(n_bits) == {}

bitmap_set(bitmap, bit) == bitmap \cup {bit}

bitmap_reset(bitmap, bit) == bitmap \ {bit}

bitmap_test(bitmap, bit) == bit \in bitmap

\* first zero bit, SIZE_MAX when every bit is set
bitmap_ffz(bitmap) ==
    LET zeros == (0 .. (BLOCK_BITS - 1)) \ bitmap
    IN  IF zeros = {} THEN SIZE_MAX
        ELSE CHOOSE i \in zeros : \A j \in zeros : i <= j

\* the bit positions set in a byte value, and the byte value of a set of
\* bit positions (bit j weighs 2^j)
BitsOfByte == [v \in 0 .. 255 |-> {j \in 0 .. 7 : (v \div Pow2(j)) % 2 = 1}]

ByteOfBits ==
    [s \in SUBSET (0 .. 7) |->
        LET bitval(j) == IF j \in s THEN Pow2(j) ELSE 0
        IN  bitval(0) + bitval(1) + bitval(2) + bitval(3)
            + bitval(4) + bitval(5) + bitval(6) + bitval(7)]

\* a block of zero bytes
Zeros == [k \in ByteIdx |-> 0]

\* the bitmap's bytes: bit b is bit (b % 8) of byte (b \div 8); a byte
\* that holds no set bit is zero
bitmap_export(bitmap) ==
    IF bitmap = {} THEN Zeros
    ELSE [k \in {b \div 8 : b \in bitmap} |->
             ByteOfBits[{j \in 0 .. 7 : (8 * k + j) \in bitmap}]] @@ Zeros

\* a new bitmap of n_bits bits holding a copy of the bytes of data; zero
\* bytes set no bit
bitmap_import(n_bits, data) ==
    IF data = Zeros THEN {}
    ELSE UNION {{8 * k + j : j \in BitsOfByte[data[k]]} :
                   k \in 0 .. ((n_bits \div 8) - 1)}

(* ---------------- block_store.c ---------------- *)
\* Each operation is an operator from the device handle (NULL or the array
\* bmp) and its arguments to the record [ret, bmp(, buffer)] of its results.

block_store_create ==
    [i \in BlockIds |->
        IF i = 0 THEN bitmap_set(bitmap_create(BLOCK_BITS), 0)
        ELSE bitmap_create(BLOCK_BITS)]

\* mutant: the limit of the scan taken to be the usable count, 255
block_store_allocate_limit255(h, bmp) ==
    IF h = NULL THEN [ret |-> SIZE_MAX, bmp |-> bmp]
    ELSE LET i == bitmap_ffz(bmp[0])
         IN  IF i = SIZE_MAX \/ i >= AVAIL_BLOCKS
             THEN [ret |-> SIZE_MAX, bmp |-> bmp]
             ELSE [ret |-> i, bmp |-> [bmp EXCEPT ![0] = bitmap_set(@, i)]]

block_store_allocate(h, bmp) ==
    IF h = NULL THEN [ret |-> SIZE_MAX, bmp |-> bmp]
    ELSE LET i == bitmap_ffz(bmp[0])
         IN  IF i = SIZE_MAX \/ i >= NUM_BLOCKS
             THEN [ret |-> SIZE_MAX, bmp |-> bmp]
             ELSE [ret |-> i, bmp |-> [bmp EXCEPT ![0] = bitmap_set(@, i)]]

\* mutant: the bit is not tested before it is set
block_store_request_untested(h, bmp, block_id) ==
    IF h # NULL /\ block_id > 0 /\ block_id < NUM_BLOCKS
    THEN [ret |-> TRUE, bmp |-> [bmp EXCEPT ![0] = bitmap_set(@, block_id)]]
    ELSE [ret |-> FALSE, bmp |-> bmp]

block_store_request(h, bmp, block_id) ==
    IF h # NULL /\ block_id > 0 /\ block_id < NUM_BLOCKS
       /\ ~bitmap_test(bmp[0], block_id)
    THEN [ret |-> TRUE, bmp |-> [bmp EXCEPT ![0] = bitmap_set(@, block_id)]]
    ELSE [ret |-> FALSE, bmp |-> bmp]

\* mutant: id 0 is not excluded
block_store_release_any_id(h, bmp, block_id) ==
    IF h # NULL /\ block_id < NUM_BLOCKS /\ bitmap_test(bmp[0], block_id)
    THEN [bmp EXCEPT ![0] = bitmap_reset(@, block_id)]
    ELSE bmp

\* mutant: a released block is emptied
block_store_release_wipes(h, bmp, block_id) ==
    IF h # NULL /\ block_id > 0 /\ block_id < NUM_BLOCKS
       /\ bitmap_test(bmp[0], block_id)
    THEN [bmp EXCEPT ![0] = bitmap_reset(@, block_id),
                     ![block_id] = bitmap_create(BLOCK_BITS)]
    ELSE bmp

block_store_release(h, bmp, block_id) ==
    IF h # NULL /\ block_id > 0 /\ block_id < NUM_BLOCKS
       /\ bitmap_test(bmp[0], block_id)
    THEN [bmp EXCEPT ![0] = bitmap_reset(@, block_id)]
    ELSE bmp

\* for(i = lo; i < hi; ++i) if(bitmap_test(bitmap, i)) ub++;
\* the loop's count over [lo, hi), summed by halves to keep the evaluation
\* depth logarithmic
RECURSIVE CountUsed(_, _, _)
CountUsed(bitmap, lo, hi) ==
    IF lo >= hi THEN 0
    ELSE IF hi = lo + 1 THEN (IF bitmap_test(bitmap, lo) THEN 1 ELSE 0)
    ELSE LET mid == (lo + hi) \div 2
         IN  CountUsed(bitmap, lo, mid) + CountUsed(bitmap, mid, hi)

\* mutant: the count starts at bit 0
block_store_get_used_blocks_from0(h, bmp) ==
    IF h = NULL THEN SIZE_MAX
    ELSE LET ub == CountUsed(bmp[0], 0, NUM_BLOCKS)
         IN  IF ub >= NUM_BLOCKS THEN SIZE_MAX ELSE ub

\* mutant: the overflow limit taken to be the usable count, 255
block_store_get_used_blocks_limit255(h, bmp) ==
    IF h = NULL THEN SIZE_MAX
    ELSE LET ub == CountUsed(bmp[0], 1, NUM_BLOCKS)
         IN  IF ub >= AVAIL_BLOCKS THEN SIZE_MAX ELSE ub

block_store_get_used_blocks(h, bmp) ==
    IF h = NULL THEN SIZE_MAX
    ELSE LET ub == CountUsed(bmp[0], 1, NUM_BLOCKS)
         IN  IF ub >= NUM_BLOCKS THEN SIZE_MAX ELSE ub

\* mutant: the failure of the used count is not passed on
block_store_get_free_blocks_unchecked(h, bmp) ==
    AVAIL_BLOCKS - block_store_get_used_blocks(h, bmp)

block_store_get_free_blocks(h, bmp) ==
    LET ub == block_store_get_used_blocks(h, bmp)
    IN  IF ub = SIZE_MAX THEN SIZE_MAX ELSE AVAIL_BLOCKS - ub

block_store_get_total_blocks == AVAIL_BLOCKS

\* buf = NULL is an absent buffer; buffer is what the call copied out
block_store_read(h, bmp, block_id, buf) ==
    IF h = NULL \/ buf = NULL THEN [ret |-> 0, buffer |-> NoData]
    ELSE [ret |-> BLOCK_BYTES, buffer |-> bitmap_export(bmp[block_id])]

\* mutant: the byte count is passed as the bit count of the imported bitmap
block_store_write_short(h, bmp, block_id, buf, data) ==
    IF h = NULL \/ buf = NULL \/ block_id >= NUM_BLOCKS
    THEN [ret |-> 0, bmp |-> bmp]
    ELSE [ret |-> BLOCK_BYTES,
          bmp |-> [bmp EXCEPT ![block_id] = bitmap_import(BLOCK_BYTES, data)]]

\* mutant: a write marks the block as in use
block_store_write_marks_used(h, bmp, block_id, buf, data) ==
    IF h = NULL \/ buf = NULL \/ block_id >= NUM_BLOCKS
    THEN [ret |-> 0, bmp |-> bmp]
    ELSE [ret |-> BLOCK_BYTES,
          bmp |-> [[bmp EXCEPT ![block_id] = bitmap_import(BLOCK_BITS, data)]
                        EXCEPT ![0] = bitmap_set(@, block_id)]]

block_store_write(h, bmp, block_id, buf, data) ==
    IF h = NULL \/ buf = NULL \/ block_id >= NUM_BLOCKS
    THEN [ret |-> 0, bmp |-> bmp]
    ELSE [ret |-> BLOCK_BYTES,
          bmp |-> [bmp EXCEPT ![block_id] = bitmap_import(BLOCK_BITS, data)]]

\* block_store_write where bitmap_import cannot obtain storage and returns
\* NULL: the old bitmap is already destroyed and the entry stays NULL
block_store_write_nomem(h, bmp, block_id, buf, data) ==
    IF h = NULL \/ buf = NULL \/ block_id >= NUM_BLOCKS
    THEN [ret |-> 0, bmp |-> bmp]
    ELSE [ret |-> 0, bmp |-> [bmp EXCEPT ![block_id] = NullBitmap]]

\* every bitmap is destroyed and the device freed
block_store_destroy(h, bmp) ==
    IF h = NULL THEN bmp ELSE [i \in BlockIds |-> NullBitmap]

(* ---------------- inputs ---------------- *)
Handles == {"bs", NULL}
\* ids given to request and release: reserved, usable, last, out of range
ReqIds == {0, 1, NUM_BLOCKS - 1, NUM_BLOCKS}
\* ids given to write and read: the free block map, a usable block, and
\* (write only) the first id out of range
WriteIds == {0, 1, NUM_BLOCKS}
ReadIds == {0, 1}

Ones == [k \in ByteIdx |-> 255]
\* calloc + memset(buffer, '~', TildeLen) of the tests ('~' = 126)
Tilde == [k \in ByteIdx |-> IF k < TildeLen THEN 126 ELSE 0]
\* bits 0..254 set, bit 255 and everything above clear
AllButLast == [k \in ByteIdx |-> IF k < 31 THEN 255 ELSE IF k = 31 THEN 127 ELSE 0]
Buffers == {Zeros, Ones, Tilde, AllButLast}

(* ---------------- serialize and deserialize ---------------- *)
\* A file is [exists, len, data, tail]: it starts with len complete pieces of
\* BLOCK_BYTES bytes, numbered from 0, each as one read(fd, buffer, 256)
\* delivers it; data[i] holds the bytes of piece i, kept only for the pieces
\* that are not all zero bytes; tail holds the bytes of a shorter last piece.
EmptyFile == [exists |-> TRUE, len |-> 0, data |-> <<>>, tail |-> <<>>]

\* piece i of the file
Chunk(f, i) == IF i \in DOMAIN f.data THEN f.data[i] ELSE Zeros

\* mutant: every block written is block 0
SerializedBlock_block0(bmp, i) == bitmap_export(bmp[0])

\* the bytes handed to write(fd, ..., 256) for block i
SerializedBlock(bmp, i) == bitmap_export(bmp[i])

\* the file after the first n writes of the loop went through in full
WrittenBlocks(bmp, n) ==
    LET written == [i \in 0 .. (n - 1) |-> SerializedBlock(bmp, i)]
    IN  [exists |-> TRUE,
         len |-> n,
         data |-> [i \in {j \in 0 .. (n - 1) : written[j] # Zeros} |-> written[i]],
         tail |-> <<>>]

\* env says where the run meets an I/O failure: io is "none", "open1",
\* "close1", "open2", "write" (write number env.at returns -1), "short" (the
\* last write transfers env.n < 256 bytes) or "close2". The result is the
\* return value, the file left behind, and the descriptors left open. The
\* first open (O_TRUNC | O_CREAT) leaves an empty file.
block_store_serialize(h, bmp, filename, f, env) ==
    IF h = NULL \/ filename = NULL THEN [ret |-> 0, file |-> f, leak |-> 0]
    ELSE IF env.io = "open1" THEN [ret |-> 0, file |-> f, leak |-> 0]
    ELSE IF env.io \in {"close1", "open2"}
    THEN [ret |-> 0, file |-> EmptyFile, leak |-> 0]
    ELSE IF env.io = "write"
    THEN [ret |-> 0, file |-> WrittenBlocks(bmp, env.at), leak |-> 1]
    ELSE IF env.io = "short"
    THEN [ret |-> NUM_BLOCKS * BLOCK_BYTES,
          file |-> [WrittenBlocks(bmp, NUM_BLOCKS - 1) EXCEPT
                      !.tail = [k \in 1 .. env.n |->
                                   SerializedBlock(bmp, NUM_BLOCKS - 1)[k - 1]]],
          leak |-> 0]
    ELSE IF env.io = "close2"
    THEN [ret |-> 0, file |-> WrittenBlocks(bmp, NUM_BLOCKS), leak |-> 0]
    ELSE [ret |-> NUM_BLOCKS * BLOCK_BYTES,
          file |-> WrittenBlocks(bmp, NUM_BLOCKS), leak |-> 0]

\* uint8_t buffer[256] after read number i (from 0) of the loop. The array
\* is not initialised: the bytes a read does not fill are whatever the build
\* leaves there, which junk chooses: "zeros", or "stale" (the bytes of the
\* previous iteration, zeros before the first).
ReadBuffer(f, i, junk) ==
    LET c == f.len
        before == IF junk = "stale" /\ c > 0 THEN Chunk(f, c - 1) ELSE Zeros
        short == IF Len(f.tail) = 0 THEN before
                 ELSE [k \in ByteIdx |->
                          IF k < Len(f.tail) THEN f.tail[k + 1] ELSE before[k]]
    IN  IF i < c THEN Chunk(f, i)
        ELSE IF i = c \/ junk = "stale" THEN short
        ELSE Zeros

\* mutant: block 0 of the file is not loaded
block_store_deserialize_skip0(filename, f, env) ==
    IF filename = NULL THEN [ret |-> NULL, bmp |-> <<>>, leak |-> 0]
    ELSE IF ~f.exists \/ env.io = "open" THEN [ret |-> NULL, bmp |-> <<>>, leak |-> 0]
    ELSE IF env.io \in {"create", "read", "write"}
    THEN [ret |-> NULL, bmp |-> <<>>, leak |-> 1]
    ELSE IF env.io = "close" THEN [ret |-> NULL, bmp |-> <<>>, leak |-> 0]
    ELSE LET created == block_store_create
         IN  [ret |-> "bs",
              bmp |-> [i \in BlockIds |->
                          IF i = 0 THEN created[0]
                          ELSE block_store_write("bs", created, i, "buffer",
                                                 ReadBuffer(f, i, env.junk)).bmp[i]],
              leak |-> 0]

\* env.io is "none", "open", "create" (block_store_create returns NULL),
\* "read" (a read returns -1), "write" (block_store_write does not return
\* 256) or "close". Only a negative read result stops the loop. Write number
\* i of the loop changes bmp[i] of the new device and nothing else, so the
\* device after the loop is given block by block.
block_store_deserialize(filename, f, env) ==
    IF filename = NULL THEN [ret |-> NULL, bmp |-> <<>>, leak |-> 0]
    ELSE IF ~f.exists \/ env.io = "open" THEN [ret |-> NULL, bmp |-> <<>>, leak |-> 0]
    ELSE IF env.io \in {"create", "read", "write"}
    THEN [ret |-> NULL, bmp |-> <<>>, leak |-> 1]
    ELSE IF env.io = "close" THEN [ret |-> NULL, bmp |-> <<>>, leak |-> 0]
    ELSE LET created == block_store_create
         IN  [ret |-> "bs",
              bmp |-> [i \in BlockIds |->
                          block_store_write("bs", created, i, "buffer",
                                            ReadBuffer(f, i, env.junk)).bmp[i]],
              leak |-> 0]

\* the filename argument
Paths == {"test.bs", NULL}
\* bytes transferred by a short write
ShortCounts == {100}
\* where serialize meets an I/O failure
SerializeEnvs ==
    {[io |-> x, at |-> 0, n |-> 0] : x \in {"none", "open1", "close1", "open2", "close2"}}
    \cup {[io |-> "write", at |-> i, n |-> 0] : i \in {0, 1}}
    \cup {[io |-> "short", at |-> NUM_BLOCKS - 1, n |-> k] : k \in ShortCounts}
\* where deserialize meets a failure, and what its uninitialised bytes hold
DeserializeEnvs ==
    {[io |-> x, junk |-> "zeros"] : x \in {"open", "create", "read", "write", "close"}}
    \cup {[io |-> "none", junk |-> j] : j \in {"zeros", "stale"}}
NoFault == [io |-> "none", at |-> 0, n |-> 0]

(* ---------------- the state machine ---------------- *)
VARIABLES
    bs,      \* the live device: bs[i] is the bitmap (*bs).bmp[i]
    call,    \* the last call: [op, h, id, buf, data]; buf is its pointer
             \* argument (the buffer, or the filename)
    ret,     \* what the last call returned
    buffer,  \* what the last call copied into the caller's buffer
    ncalls,  \* calls made so far
    file,    \* the file at the path given to serialize and deserialize
    fds,     \* file descriptors opened and not closed
    held,    \* history: ids handed out by allocate or request and not
             \* released since (Untracked where no property reads it)
    saved    \* history: the device and the held ids at the last serialize
             \* that met no I/O failure, while the file is the one it wrote

vars == <<bs, call, ret, buffer, ncalls, file, fds, held, saved>>

\* no file at the path
NoFile == [exists |-> FALSE, len |-> 0, data |-> <<>>, tail |-> <<>>]

Untracked == {-1}
NotSaved == [ok |-> FALSE, bmp |-> <<>>, held |-> {}]

\* the state after block_store_create
Created ==
    /\ bs = block_store_create
    /\ call = [op |-> "create", h |-> "bs", id |-> 0, buf |-> NULL, data |-> NoData]
    /\ ret = "bs"
    /\ buffer = NoData
    /\ ncalls = 0
    /\ file = NoFile
    /\ fds = 0
    /\ saved = NotSaved

Init == Created /\ held = Untracked

\* the history variable's next value
Holding(ids) == held' = IF held = Untracked THEN held ELSE ids

\* every bitmap of the device is there: a call on a device with a NULL
\* entry dereferences it, and the model follows the device no further
Healthy(bmp) == \A i \in BlockIds : bmp[i] # NullBitmap

\* one more call
Called(op, h, id, buf, data) ==
    /\ ncalls < MaxCalls
    /\ Healthy(bs)
    /\ ncalls' = ncalls + 1
    /\ call' = [op |-> op, h |-> h, id |-> id, buf |-> buf, data |-> data]

\* a call that touches no file
NoFileIO == UNCHANGED <<file, fds, saved>>

Allocate ==
    \E h \in Handles :
        LET r == block_store_allocate(h, bs)
        IN  /\ Called("allocate", h, 0, NULL, NoData)
            /\ bs' = r.bmp
            /\ ret' = r.ret
            /\ buffer' = NoData
            /\ Holding(IF r.ret # SIZE_MAX THEN held \cup {r.ret} ELSE held)
            /\ NoFileIO

RequestCall(h, id) ==
    LET r == block_store_request(h, bs, id)
    IN  /\ Called("request", h, id, NULL, NoData)
        /\ bs' = r.bmp
        /\ ret' = r.ret
        /\ buffer' = NoData
        /\ Holding(IF r.ret THEN held \cup {id} ELSE held)
        /\ NoFileIO

Request ==
    \E h \in Handles, id \in ReqIds :
        /\ h = NULL => id = 1
        /\ RequestCall(h, id)

Release ==
    \E h \in Handles, id \in ReqIds :
        /\ h = NULL => id = 1
        /\ Called("release", h, id, NULL, NoData)
        /\ bs' = block_store_release(h, bs, id)
        /\ ret' = "void"
        /\ buffer' = NoData
        /\ Holding(IF h # NULL THEN held \ {id} ELSE held)
        /\ NoFileIO

GetUsedBlocks ==
    \E h \in Handles :
        /\ Called("get_used_blocks", h, 0, NULL, NoData)
        /\ ret' = block_store_get_used_blocks(h, bs)
        /\ buffer' = NoData
        /\ UNCHANGED <<bs, held>>
        /\ NoFileIO

GetFreeBlocks ==
    \E h \in Handles :
        /\ Called("get_free_blocks", h, 0, NULL, NoData)
        /\ ret' = block_store_get_free_blocks(h, bs)
        /\ buffer' = NoData
        /\ UNCHANGED <<bs, held>>
        /\ NoFileIO

Read ==
    \E h \in Handles, id \in ReadIds, buf \in {"buffer", NULL} :
        LET r == block_store_read(h, bs, id, buf)
        IN  /\ (h = NULL \/ buf = NULL) => id = 1
            /\ Called("read", h, id, buf, NoData)
            /\ buffer' = r.buffer
            /\ ret' = r.ret
            /\ UNCHANGED <<bs, held>>
            /\ NoFileIO

WriteCall(h, id, buf, data) ==
    LET r == block_store_write(h, bs, id, buf, data)
    IN  /\ Called("write", h, id, buf, IF buf = NULL THEN NoData ELSE data)
        /\ bs' = r.bmp
        /\ ret' = r.ret
        /\ buffer' = NoData
        /\ UNCHANGED held
        /\ NoFileIO

Write ==
    \E h \in Handles, id \in WriteIds, data \in Buffers, buf \in {"buffer", NULL} :
        /\ (h = NULL \/ buf = NULL \/ id >= NUM_BLOCKS) => (id \in {1, NUM_BLOCKS} /\ data = Tilde)
        /\ data = Ones => id = 0
        /\ WriteCall(h, id, buf, data)

Next ==
    \/ Allocate
    \/ Request
    \/ Release
    \/ GetUsedBlocks
    \/ GetFreeBlocks
    \/ Read
    \/ Write

Spec == Init /\ [][Next]_vars

\* the same calls with the history of handed-out ids recorded
InitHeld == Created /\ held = {}

SpecHeld == InitHeld /\ [][Next]_vars

SerializeCall(h, fn, env) ==
    LET r == block_store_serialize(h, bs, fn, file, env)
    IN  /\ Called("serialize", h, 0, fn, NoData)
        /\ ret' = r.ret
        /\ file' = r.file
        /\ fds' = fds + r.leak
        /\ saved' = IF h = NULL \/ fn = NULL \/ env.io = "open1" THEN saved
                    ELSE IF env.io = "none"
                    THEN [ok |-> TRUE, bmp |-> bs, held |-> held]
                    ELSE NotSaved
        /\ buffer' = NoData
        /\ UNCHANGED <<bs, held>>

\* the caller goes on with the device deserialize returned, if any
DeserializeCall(fn, env) ==
    LET r == block_store_deserialize(fn, file, env)
    IN  /\ Called("deserialize", "none", 0, fn, NoData)
        /\ ret' = r.ret
        /\ bs' = IF r.ret = NULL THEN bs ELSE r.bmp
        /\ Holding(IF r.ret = NULL THEN held ELSE {})
        /\ fds' = fds + r.leak
        /\ buffer' = NoData
        /\ UNCHANGED <<file, saved>>

\* a device is filled, then saved and loaded again (tests.cpp
\* valid_serialize, valid_deserialize): the requests and writes come before
\* the first file is written
PersistRequest == ~file.exists /\ RequestCall("bs", 1)

PersistWrite ==
    /\ ~file.exists
    /\ \E id \in ReadIds, data \in {Zeros, Tilde} : WriteCall("bs", id, "buffer", data)

Serialize == \E env \in SerializeEnvs : SerializeCall("bs", "test.bs", env)

Deserialize == \E env \in DeserializeEnvs : DeserializeCall("test.bs", env)

NextPersist ==
    \/ PersistRequest
    \/ PersistWrite
    \/ Serialize
    \/ Deserialize

SpecPersist == InitHeld /\ [][NextPersist]_vars

\* the calls with an absent device or an absent path that Next does not make
DestroyAbsent ==
    /\ Called("destroy", NULL, 0, NULL, NoData)
    /\ bs' = block_store_destroy(NULL, bs)
    /\ ret' = "void"
    /\ buffer' = NoData
    /\ UNCHANGED held
    /\ NoFileIO

SerializeAbsent ==
    \E h \in Handles, fn \in Paths :
        /\ h = NULL \/ fn = NULL
        /\ SerializeCall(h, fn, NoFault)

DeserializeAbsent == \E env \in DeserializeEnvs : env.io = "none" /\ DeserializeCall(NULL, env)

\* a device and a file for the absent calls to leave alone
LiveSetup ==
    \/ RequestCall("bs", 1)
    \/ WriteCall("bs", 1, "buffer", Tilde)
    \/ SerializeCall("bs", "test.bs", NoFault)

\* every operation called with an absent device or path
NextAbsent ==
    \/ Next /\ call'.h = NULL
    \/ DestroyAbsent
    \/ SerializeAbsent
    \/ DeserializeAbsent
    \/ LiveSetup

SpecAbsent == Init /\ [][NextAbsent]_vars

\* a write during which no storage can be obtained for the new bitmap
WriteNoMem ==
    \E id \in ReadIds, data \in {Zeros, Tilde} :
        LET r == block_store_write_nomem("bs", bs, id, "buffer", data)
        IN  /\ Called("write", "bs", id, "buffer", data)
            /\ bs' = r.bmp
            /\ ret' = r.ret
            /\ buffer' = NoData
            /\ UNCHANGED held
            /\ NoFileIO

NextNoMem ==
    \/ Next
    \/ WriteNoMem

SpecNoMem == Init /\ [][NextNoMem]_vars

\* tests.cpp over_allocate: allocate in a loop on a fresh device, AVAIL_BLOCKS
\* times and once more
OverAllocate ==
    LET r == block_store_allocate("bs", bs)
    IN  /\ ncalls < AVAIL_BLOCKS + 1
        /\ ncalls' = ncalls + 1
        /\ call' = [op |-> "allocate", h |-> "bs", id |-> 0, buf |-> NULL, data |-> NoData]
        /\ bs' = r.bmp
        /\ ret' = r.ret
        /\ buffer' = NoData
        /\ Holding(IF r.ret # SIZE_MAX THEN held \cup {r.ret} ELSE held)
        /\ NoFileIO

SpecOverAllocate == Init /\ [][OverAllocate]_vars

\* the counts (as tests.cpp count_free_and_used asks for them) taken between
\* the allocations of over_allocate; a count call is not one of the loop's
\* allocations
FillGetUsed ==
    /\ call' = [op |-> "get_used_blocks", h |-> "bs", id |-> 0, buf |-> NULL, data |-> NoData]
    /\ ret' = block_store_get_used_blocks("bs", bs)
    /\ buffer' = NoData
    /\ UNCHANGED <<bs, ncalls, held>>
    /\ NoFileIO

FillGetFree ==
    /\ call' = [op |-> "get_free_blocks", h |-> "bs", id |-> 0, buf |-> NULL, data |-> NoData]
    /\ ret' = block_store_get_free_blocks("bs", bs)
    /\ buffer' = NoData
    /\ UNCHANGED <<bs, ncalls, held>>
    /\ NoFileIO

NextFill ==
    \/ OverAllocate
    \/ FillGetUsed
    \/ FillGetFree

SpecFill == Init /\ [][NextFill]_vars

(* ---------------- properties ---------------- *)
\* the occupancy bit of id
Occupied(bmp, id) == bitmap_test(bmp[0], id)

\* the bytes read(device, id) returns
ReadOf(bmp, id) == block_store_read("bs", bmp, id, "buffer").buffer

\* the last call was a write that returned BLOCK_BYTES
WriteSucceeded == call.op = "write" /\ ret = BLOCK_BYTES

\* C1 (as claimed): in every reachable state occupancy bit 0 is set, and the
\* number of set occupancy bits among ids [0,N) is between 1 and N.
C1_ReservedBitAlwaysSet ==
    /\ Occupied(bs, 0)
    /\ Cardinality({i \in BlockIds : Occupied(bs, i)}) \in 1 .. NUM_BLOCKS

\* what a caller can observe of the occupancy: every bit, the counts, and
\* the results of a following allocate or request(j)
SameOccupancy(b1, b2) ==
    /\ \A i \in BlockIds : Occupied(b1, i) = Occupied(b2, i)
    /\ block_store_get_used_blocks("bs", b1) = block_store_get_used_blocks("bs", b2)
    /\ block_store_get_free_blocks("bs", b1) = block_store_get_free_blocks("bs", b2)
    /\ block_store_allocate("bs", b1).ret = block_store_allocate("bs", b2).ret
    /\ \A j \in ReqIds :
          block_store_request("bs", b1, j).ret = block_store_request("bs", b2, j).ret

BitmapCall == call.op \in {"allocate", "request", "release"}

\* C3 (as claimed): allocate, request and release leave the bytes read from
\* every id in [0,N), id 0 included, unchanged.
C3_BitmapCallsKeepContentAnyId ==
    [][BitmapCall' =>
          \A id \in BlockIds : bs'[id] = bs[id] \/ ReadOf(bs', id) = ReadOf(bs, id)]_vars

\* C3 (amended): allocate, request and release leave the bytes read from
\* every id in [1,N) unchanged, whether the call succeeds or not; the bytes
\* read from id 0 change exactly when the call changes an occupancy bit.
C3_BitmapCallsKeepContent ==
    [][BitmapCall' =>
          /\ \A id \in 1 .. (NUM_BLOCKS - 1) :
                bs'[id] = bs[id] \/ ReadOf(bs', id) = ReadOf(bs, id)
          /\ \/ bs'[0] = bs[0]
             \/ (ReadOf(bs', 0) # ReadOf(bs, 0))
                   <=> (\E i \in BlockIds : Occupied(bs', i) # Occupied(bs, i))]_vars

\* block 1 holds written bytes and was then released
C3_Witness ==
    /\ call.op = "release"
    /\ call.h = "bs"
    /\ call.id = 1
    /\ ~Occupied(bs, 1)
    /\ ReadOf(bs, 1) = Tilde

\* C4: allocate on a live device returns the lowest id in [0,N) whose bit is
\* clear and sets exactly that bit; it returns SIZE_MAX and changes nothing
\* exactly when all N bits are set.
C4_AllocateLowestFree ==
    [][(call'.op = "allocate" /\ call'.h = "bs") =>
          LET free == {i \in BlockIds : ~Occupied(bs, i)}
          IN  IF free = {}
              THEN ret' = SIZE_MAX /\ bs' = bs
              ELSE /\ ret' \in free
                   /\ \A j \in free : ret' <= j
                   /\ bs' = [bs EXCEPT ![0] = @ \cup {ret'}]]_vars

\* allocate handed out the last id, the only one that was free
C4_Witness ==
    /\ call.op = "allocate"
    /\ call.h = "bs"
    /\ ret = NUM_BLOCKS - 1
    /\ \A i \in BlockIds : Occupied(bs, i)

\* C5 (as claimed): on a fresh device the k-th of 255 consecutive allocate
\* calls returns k - 1, and the call after them returns SIZE_MAX.
C5_AllocateSequenceFromZero ==
    call.op = "allocate" =>
        IF ncalls <= AVAIL_BLOCKS THEN ret = ncalls - 1 ELSE ret = SIZE_MAX

\* C6 (as claimed): whenever allocate returned an id other than SIZE_MAX,
\* release of that id immediately followed by allocate returns the same id.
C6_ReleaseThenAllocateSameId ==
    (call.op = "allocate" /\ call.h = "bs" /\ ret # SIZE_MAX) =>
        block_store_allocate("bs", block_store_release("bs", bs, ret)).ret = ret

\* C7: request returns true iff the device is live, 0 < id < N and the bit
\* of id is clear; on success exactly that bit becomes set, on failure
\* nothing changes; a request of the same id right after a successful one
\* returns false.
C7_Request ==
    [][call'.op = "request" =>
          LET id == call'.id
              ok == call'.h = "bs" /\ 0 < id /\ id < NUM_BLOCKS /\ ~Occupied(bs, id)
          IN  /\ ret' = ok
              /\ ok => bs' = [bs EXCEPT ![0] = @ \cup {id}]
              /\ ~ok => bs' = bs
              /\ (call.op = "request" /\ ret = TRUE /\ call.id = id) => ret' = FALSE]_vars

\* a request of a usable id whose bit is already set was refused
C7_Witness ==
    /\ call.op = "request"
    /\ call.h = "bs"
    /\ call.id = NUM_BLOCKS - 1
    /\ ret = FALSE
    /\ Occupied(bs, NUM_BLOCKS - 1)
    /\ ~Occupied(bs, 1)

UsedBits(bmp) == Cardinality({i \in 1 .. (NUM_BLOCKS - 1) : Occupied(bmp, i)})

\* C9: used_count is the number of set bits among ids [1,N), free_count is
\* 255 - used_count, their sum is total_blocks() = 255; a fresh device has
\* used_count 0 and free_count 255; a successful request raises used_count
\* by 1 and lowers free_count by 1.
C9_Counts ==
    /\ [](/\ block_store_get_used_blocks("bs", bs) = UsedBits(bs)
          /\ block_store_get_free_blocks("bs", bs) = 255 - UsedBits(bs)
          /\ block_store_get_used_blocks("bs", bs) + block_store_get_free_blocks("bs", bs)
                = block_store_get_total_blocks
          /\ block_store_get_total_blocks = 255
          /\ (call.op = "get_used_blocks" /\ call.h = "bs") => ret = UsedBits(bs)
          /\ (call.op = "get_free_blocks" /\ call.h = "bs") => ret = 255 - UsedBits(bs)
          /\ call.op = "create" =>
                /\ block_store_get_used_blocks("bs", bs) = 0
                /\ block_store_get_free_blocks("bs", bs) = 255)
    /\ [][(call'.op = "request" /\ ret' = TRUE) =>
            /\ block_store_get_used_blocks("bs", bs')
                  = block_store_get_used_blocks("bs", bs) + 1
            /\ block_store_get_free_blocks("bs", bs')
                  = block_store_get_free_blocks("bs", bs) - 1]_vars

\* a second distinct id was requested and the device counts two used blocks
C9_Witness ==
    /\ call.op = "request"
    /\ ret = TRUE
    /\ bs[0] = {0, 1, NUM_BLOCKS - 1}
    /\ block_store_get_used_blocks("bs", bs) = 2
    /\ block_store_get_free_blocks("bs", bs) = 253

\* C10: a write to an id in [0,N) on a live device returns B, and a read of
\* the same id right after it returns B and the written bytes, whatever the
\* occupancy bit of the id.
C10_WriteThenRead ==
    [][/\ (call'.op = "write" /\ call'.h = "bs" /\ call'.buf # NULL
            /\ call'.id < NUM_BLOCKS) =>
            /\ ret' = BLOCK_BYTES
            /\ block_store_read("bs", bs', call'.id, "buffer")
                  = [ret |-> BLOCK_BYTES, buffer |-> call'.data]
       /\ (WriteSucceeded /\ call'.op = "read" /\ call'.h = "bs"
            /\ call'.buf # NULL /\ call'.id = call.id) =>
            /\ ret' = BLOCK_BYTES
            /\ buffer' = call.data]_vars

\* a read of a free block returned bytes that only a write can have put there
C10_Witness ==
    /\ call.op = "read"
    /\ call.id = 1
    /\ ret = BLOCK_BYTES
    /\ buffer = Tilde
    /\ ~Occupied(bs, 1)

\* C18 (as claimed): over any sequence of calls on a live device, writes to
\* any id included, an id handed out by allocate or by a successful request
\* and not released since is not returned by a later allocate, and a later
\* request of it does not succeed.
C18_NoDoubleAllocation ==
    [][/\ (call'.op = "allocate" /\ call'.h = "bs" /\ ret' # SIZE_MAX)
            => ret' \notin held
       /\ (call'.op = "request" /\ call'.h = "bs" /\ ret' = TRUE)
            => call'.id \notin held]_vars

\* C19 (as claimed): used_count returns SIZE_MAX, and free_count passes it
\* on, whenever the number of set occupancy bits among ids [1,N) is 255 or
\* more.
C19_FailureWhenAllUsed ==
    /\ (call.op = "get_used_blocks" /\ call.h = "bs" /\ UsedBits(bs) >= AVAIL_BLOCKS)
          => ret = SIZE_MAX
    /\ (call.op = "get_free_blocks" /\ call.h = "bs" /\ UsedBits(bs) >= AVAIL_BLOCKS)
          => ret = SIZE_MAX

\* C19 (amended): on a live device used_count never returns SIZE_MAX: it
\* returns the number of set occupancy bits among ids [1,N), which is at
\* most 255, and free_count returns 255 minus that number; with all 255
\* usable blocks in use they return 255 and 0.
C19_CountsWhenAllUsed ==
    /\ (call.op = "get_used_blocks" /\ call.h = "bs")
          => (ret = UsedBits(bs) /\ ret <= AVAIL_BLOCKS /\ ret # SIZE_MAX)
    /\ (call.op = "get_free_blocks" /\ call.h = "bs")
          => (ret = AVAIL_BLOCKS - UsedBits(bs) /\ ret >= 0 /\ ret # SIZE_MAX)
    /\ UsedBits(bs) = AVAIL_BLOCKS
          => /\ block_store_get_used_blocks("bs", bs) = AVAIL_BLOCKS
             /\ block_store_get_free_blocks("bs", bs) = 0

C19_Witness ==
    /\ call.op = "get_used_blocks"
    /\ call.h = "bs"
    /\ UsedBits(bs) = AVAIL_BLOCKS
    /\ ret = AVAIL_BLOCKS

\* C20 (as claimed): request(device, 0) fails in every reachable state,
\* request(device, 255) fails on a fresh device, and request(device, 100) on
\* a fresh device succeeds once and fails on an immediate repeat.
C20_RequestEdges ==
    /\ (call.op = "request" /\ call.id = 0) => ret = FALSE
    /\ (call.op = "request" /\ call.h = "bs" /\ call.id = NUM_BLOCKS - 1 /\ ncalls = 1)
          => ret = FALSE
    /\ ncalls = 0
          => LET r1 == block_store_request("bs", bs, 100)
             IN  /\ r1.ret = TRUE
                 /\ block_store_request("bs", r1.bmp, 100).ret = FALSE

\* C15 (as claimed): whenever write returns 0 (absent device, absent buffer,
\* id >= N, or no storage for the new content), every slot in [0,N), slot id
\* included, holds exactly the content it held before the call and can
\* still be read.
C15_WriteAllOrNothing ==
    [][(call'.op = "write" /\ ret' = 0)
          => \A i \in BlockIds : bs'[i] # NullBitmap /\ bs'[i] = bs[i]]_vars

\* the last call was a deserialize that returned a device
Deserialized == call.op = "deserialize" /\ ret # NULL

\* C11: serialize followed by deserialize, with no I/O failure, yields a
\* device in which read(id) returns, for every id in [0,N), the bytes
\* read(id) returned on the original device at the time of serialize.
C11_RoundTripContent ==
    (Deserialized /\ saved.ok)
        => \A id \in BlockIds : ReadOf(bs, id) = ReadOf(saved.bmp, id)

C11_Witness ==
    /\ Deserialized
    /\ saved.ok
    /\ ReadOf(saved.bmp, 1) = Tilde
    /\ ReadOf(bs, 1) = Tilde

\* C12 (as claimed): a device returned by deserialize has the occupancy of a
\* fresh device: only bit 0 is set, used_count is 0 and free_count is 255,
\* whatever was allocated or requested on the device that was serialized.
C12_FreshOccupancy ==
    Deserialized
        => /\ \A i \in BlockIds : Occupied(bs, i) <=> i = 0
           /\ block_store_get_used_blocks("bs", bs) = 0
           /\ block_store_get_free_blocks("bs", bs) = AVAIL_BLOCKS

\* C12 (amended): a device returned by deserialize has the occupancy the
\* file holds: the occupancy bit of id i is bit i of the file's first B
\* bytes; for a file written by a serialize without I/O failure that is the
\* occupancy of the device that was serialized (same bits, counts, and
\* results of a following allocate or request).
C12_OccupancyFromFile ==
    Deserialized
        => /\ file.len >= 1
                => \A i \in BlockIds :
                      Occupied(bs, i) <=> (i % 8) \in BitsOfByte[Chunk(file, 0)[i \div 8]]
           /\ saved.ok => SameOccupancy(bs, saved.bmp)

C12_Witness ==
    /\ Deserialized
    /\ saved.ok
    /\ Occupied(saved.bmp, 1)
    /\ Occupied(bs, 1)
    /\ block_store_get_used_blocks("bs", bs) = 1

\* C13 (as claimed): an id in (0,N) successfully requested before the device
\* was serialized cannot be requested on the device deserialize returns for
\* that file, and read(id) on it returns the content the block had at the
\* time of serialize.
C13_RequestedStaysInUse ==
    (Deserialized /\ saved.ok)
        => \A id \in saved.held :
              /\ block_store_request("bs", bs, id).ret = FALSE
              /\ ReadOf(bs, id) = ReadOf(saved.bmp, id)

\* C14 (as claimed): deserialize returns no device when the file cannot be
\* opened or is shorter than N x B bytes, so that one of the N reads
\* delivers fewer than B bytes.
C14_ShortFileRejected ==
    (call.op = "deserialize" /\ (~file.exists \/ file.len < NUM_BLOCKS))
        => ret = NULL

\* C16 (as claimed): when serialize returns a non-zero value, the value is
\* N x B and the file consists of exactly N x B bytes, block i (as read(i)
\* returns it) at bytes [i*B, (i+1)*B); a run with an I/O failure, a short
\* write included, returns 0.
C16_SerializeWritesWholeFile ==
    (call.op = "serialize" /\ ret # 0)
        => /\ ret = NUM_BLOCKS * BLOCK_BYTES
           /\ file.exists
           /\ file.len = NUM_BLOCKS
           /\ file.tail = <<>>
           /\ \A i \in BlockIds : Chunk(file, i) = ReadOf(bs, i)

\* the call has no device, or (serialize, deserialize) no path
AbsentCall ==
    \/ call.h = NULL
    \/ call.op \in {"serialize", "deserialize"} /\ call.buf = NULL

\* what each operation returns on failure
Sentinel(op) ==
    CASE op \in {"allocate", "get_used_blocks", "get_free_blocks"} -> SIZE_MAX
      [] op = "request" -> FALSE
      [] op \in {"read", "write", "serialize"} -> 0
      [] op = "deserialize" -> NULL
      [] op \in {"release", "destroy"} -> "void"

\* C17: every operation called with an absent device returns its failure
\* sentinel (release and destroy return nothing) and changes neither the
\* live device nor the file nor the open descriptors, and copies nothing out;
\* so do serialize and deserialize called with an absent path.
C17_AbsentCallsChangeNothing ==
    [][AbsentCall'
          => /\ ret' = Sentinel(call'.op)
             /\ bs' = bs
             /\ file' = file
             /\ fds' = fds
             /\ buffer' = NoData]_vars

C17_Witness ==
    /\ call.op = "serialize"
    /\ call.h = NULL
    /\ call.buf = "test.bs"
    /\ ret = 0
    /\ file.exists
    /\ Occupied(bs, 1)

\* C21 (as claimed): every descriptor opened by serialize or deserialize is
\* closed when the call returns, on every path (success, no device created,
\* a failed read or write of the file, a failed block write), so that no
\* sequence of calls leaves descriptors open.
C21_HandlesClosed == fds = 0

====
